---- MODULE Spec2Model ----
(***************************************************************************)
(* The blog CRUD application: the router and method-override middleware of *)
(* server.mjs, the request handlers of controllers/postController.mjs and  *)
(* the post collection they read and write.                                *)
(*                                                                         *)
(* A JavaScript string is a run-length encoded sequence of characters:     *)
(* <<[ch |-> " ", n |-> 1], [ch |-> "a", n |-> 200]>> is one blank         *)
(* followed by two hundred "a".  A JavaScript value of unknown type is a   *)
(* record [tag, runs]; tag is what typeof answers.                        *)
(***************************************************************************)
EXTENDS Integers, Sequences, FiniteSets, TLC

VARIABLES posts, nextId, res, lastWrite, deleted, pending

vars == <<posts, nextId, res, lastWrite, deleted, pending>>

(***************************************************************************)
(* Bounds and program constants                                            *)
(***************************************************************************)
\* number of documents the store is asked to insert in one run
MaxIds == 2

\* number of requests waiting on the store at one time
MaxInFlight == 2

\* postController.mjs:64 and :135, longest accepted title
MaxTitleLen == 200

\* postController.mjs:66, longest body accepted by createPost
MaxBodyLen == 10000

\* postController.mjs:14, getSummary(50)
SummaryLen == 50

(***************************************************************************)
(* Strings and values                                                      *)
(***************************************************************************)
Run(c, k) == [ch |-> c, n |-> k]

EmptyStr == <<>>

IsSpace(c) == c \in {" ", "\t"}

RECURSIVE length(_)
length(s) == IF s = <<>> THEN 0 ELSE Head(s).n + length(Tail(s))

RECURSIVE trimStart(_)
trimStart(s) ==
  IF s = <<>> THEN <<>>
  ELSE IF IsSpace(Head(s).ch) THEN trimStart(Tail(s))
  ELSE s

RECURSIVE trimEnd(_)
trimEnd(s) ==
  IF s = <<>> THEN <<>>
  ELSE IF IsSpace(s[Len(s)].ch) THEN trimEnd(SubSeq(s, 1, Len(s) - 1))
  ELSE s

trim(s) == trimEnd(trimStart(s))

\* the first k characters of s
RECURSIVE substring(_, _)
substring(s, k) ==
  IF s = <<>> \/ k <= 0 THEN <<>>
  ELSE IF Head(s).n <= k THEN <<Head(s)>> \o substring(Tail(s), k - Head(s).n)
  ELSE <<Run(Head(s).ch, k)>>

Undefined == [tag |-> "undefined", runs |-> <<>>]
Number42  == [tag |-> "number", runs |-> <<>>]
Str(s)    == [tag |-> "string", runs |-> s]

typeof(v) == v.tag

\* sanitize without the trim
sanitize_noTrim(v) == IF typeof(v) = "string" THEN v.runs ELSE EmptyStr

\* typeof v === "string" ? v.trim() : ""
sanitize(v) == IF typeof(v) = "string" THEN trim(v.runs) ELSE EmptyStr


(***************************************************************************)
(* Inputs: the values a form field can carry and the requests a client     *)
(* can send under the /posts mount                                         *)
(***************************************************************************)
A(k) == <<Run("a", k)>>
X(k) == <<Run("x", k)>>
Padded(s) == <<Run(" ", 1)>> \o s \o <<Run(" ", 2)>>

\* the (title, body) pairs of a submitted form
Forms ==
  { <<Undefined, Undefined>>,
    <<Number42, Str(Padded(X(1)))>>,
    <<Str(<<Run(" ", 2)>>), Str(EmptyStr)>>,
    <<Str(Padded(A(1))), Str(Padded(X(1)))>>,
    <<Str(A(MaxTitleLen)), Str(X(MaxBodyLen))>>,
    <<Str(Padded(A(MaxTitleLen + 1))), Str(X(1))>>,
    <<Str(<<Run("b", 1)>>), Str(X(MaxBodyLen + 1))>>,
    <<Str(A(MaxTitleLen + 1)), Str(Padded(X(MaxBodyLen + 1)))>>,
    <<Str(A(MaxTitleLen + 1)), Str(EmptyStr)>>,
    <<Str(EmptyStr), Str(X(MaxBodyLen + 1))>>,
    <<Str(Padded(A(1))), Str(<<Run("\t", 1)>>)>> }

NoForm == <<Undefined, Undefined>>

\* a key that the query string or the body does not carry
Absent == "(absent)"

\* the identifiers the store hands out, in the order it hands them out
IdOf(k) == ToString(k)
Ids == { IdOf(k) : k \in 1..MaxIds }

Paths ==
  { <<>>, <<"new">> }
    \cup { <<i>> : i \in Ids }
    \cup { <<i, "edit">> : i \in Ids }
    \cup { <<i, "update">> : i \in Ids }
    \cup { <<i, "delete">> : i \in Ids }

Request(m, p, q, bm, f) ==
  [ method |-> m, originalMethod |-> m, path |-> p,
    query |-> [_method |-> q],
    body |-> [_method |-> bm, title |-> f[1], body |-> f[2]] ]

\* (query _method, body _method) of a POST that asks for an override
Overrides ==
  { <<Absent, "PUT">>, <<Absent, "DELETE">>, <<Absent, "delete">>,
    <<Absent, "BOGUS">>, <<"PUT", Absent>>, <<"DELETE", "PUT">> }

\* a form that passes validation, and no form
ValidForm == <<Str(Padded(A(1))), Str(Padded(X(1)))>>
SomeForms == { NoForm, ValidForm }

\* the requests the pages of the application send: the list, the forms, a
\* post's page, the create form, the edit form (_method=PUT) and the delete
\* button (_method=DELETE); and a plain POST to a post and to its /update
Requests ==
  { Request("GET", p, Absent, Absent, NoForm) :
      p \in {<<>>, <<"new">>} \cup {<<i>> : i \in Ids} \cup {<<i, "edit">> : i \in Ids} }
    \cup { Request("POST", <<"new">>, Absent, Absent, f) : f \in Forms }
    \cup { Request("POST", <<i>>, Absent, "PUT", f) : i \in Ids, f \in Forms }
    \cup { Request("POST", <<i>>, Absent, "DELETE", NoForm) : i \in Ids }
    \cup { Request("POST", p, Absent, Absent, ValidForm) :
             p \in {<<IdOf(1)>>, <<IdOf(1), "update">>} }

\* the requests that exercise the middleware and the router: every method
\* on every path, and POST with an override
RoutingRequests ==
  { Request(m, p, Absent, Absent, NoForm) : m \in {"GET", "DELETE", "PUT"}, p \in Paths }
    \cup { Request("PUT", <<i>>, Absent, Absent, ValidForm) : i \in Ids }
    \cup { Request("POST", p, Absent, Absent, f) : p \in Paths, f \in SomeForms }
    \cup { Request("POST", <<i>>, o[1], o[2], f) :
             i \in Ids, o \in Overrides, f \in SomeForms }
    \cup { Request("POST", p, Absent, "PUT", NoForm) : p \in Paths }

(***************************************************************************)
(* server.mjs: method-override                                             *)
(***************************************************************************)
toLowerCase(m) ==
  CASE m = "PUT" -> "put"
    [] m = "DELETE" -> "delete"
    [] m = "GET" -> "get"
    [] m = "POST" -> "post"
    [] OTHER -> m

toUpperCase(m) ==
  CASE m = "put" -> "PUT"
    [] m = "delete" -> "DELETE"
    [] m = "get" -> "GET"
    [] m = "post" -> "POST"
    [] OTHER -> m

\* the methods the middleware accepts as an override
supports(m) == toLowerCase(m) \in {"get", "post", "put", "delete", "patch", "head"}

\* methodOverride(getter): only a request that arrived as POST is examined
override(req, val) ==
  IF val # Absent /\ supports(val)
  THEN [req EXCEPT !.method = toUpperCase(val)]
  ELSE req

\* app.use(methodOverride("_method")): the key is looked up in the query string
methodOverrideQuery(req) ==
  IF req.originalMethod # "POST" THEN req
  ELSE override(req, req.query._method)

\* the getter without the delete
methodOverrideBody_keepsField(req) ==
  IF req.originalMethod # "POST" THEN req
  ELSE IF req.body._method # Absent
       THEN override(req, req.body._method)
       ELSE req

\* the getter of the second middleware: reads body._method and deletes it
methodOverrideBody(req) ==
  IF req.originalMethod # "POST" THEN req
  ELSE IF req.body._method # Absent
       THEN override([req EXCEPT !.body._method = Absent], req.body._method)
       ELSE req

methodOverride(req) == methodOverrideBody(methodOverrideQuery(req))

(***************************************************************************)
(* server.mjs: the router.  The routes are tried in the order they are     *)
(* declared; a request no route answers gets the framework's 404.          *)
(***************************************************************************)
NoId == ""

Route(req) ==
  LET p == req.path
      m == req.method
  IN
  IF p = <<>> /\ m = "GET" THEN [handler |-> "getAllPosts", id |-> NoId]
  ELSE IF p = <<"new">> /\ m = "GET" THEN [handler |-> "showNewPostForm", id |-> NoId]
  ELSE IF p = <<"new">> /\ m = "POST" THEN [handler |-> "createPost", id |-> NoId]
  ELSE IF Len(p) = 1 /\ m = "GET" THEN [handler |-> "getPostById", id |-> p[1]]
  ELSE IF Len(p) = 1 /\ m = "PUT" THEN [handler |-> "updatePost", id |-> p[1]]
  ELSE IF Len(p) = 1 /\ m = "DELETE" THEN [handler |-> "deletePost", id |-> p[1]]
  ELSE IF Len(p) = 1 /\ m = "POST" THEN [handler |-> "fallback", id |-> p[1]]
  ELSE IF Len(p) = 2 /\ p[2] = "edit" /\ m = "GET"
       THEN [handler |-> "showEditForm", id |-> p[1]]
  ELSE [handler |-> "none", id |-> NoId]


(***************************************************************************)
(* models/blogspot.mjs: the post collection.  posts maps the _id of every  *)
(* stored document to its title and body.                                  *)
(***************************************************************************)
Null == [isNull |-> TRUE]

Document(ps, id) ==
  [_id |-> id, title |-> ps[id].title, body |-> ps[id].body]

\* BlogPost.find()
find(ps) == { Document(ps, i) : i \in DOMAIN ps }

\* BlogPost.findById(id)
findById(ps, id) == IF id \in DOMAIN ps THEN Document(ps, id) ELSE Null

\* new BlogPost(doc).save(): the collection with the document in it
save(ps, id, doc) ==
  [i \in DOMAIN ps \cup {id} |-> IF i = id THEN doc ELSE ps[i]]

\* BlogPost.findByIdAndUpdate(id, update, {new: true}): the collection after;
\* the fields the update names are set, the others are kept
findByIdAndUpdate(ps, id, update) ==
  IF id \in DOMAIN ps
  THEN [ps EXCEPT ![id] =
          [k \in DOMAIN ps[id] |-> IF k \in DOMAIN update THEN update[k] ELSE ps[id][k]]]
  ELSE ps

\* BlogPost.findByIdAndDelete(id): the collection after
findByIdAndDelete(ps, id) == [i \in DOMAIN ps \ {id} |-> ps[i]]

\* the url virtual of a document
url(id) == <<"posts", id>>

\* the getSummary(maxLength) method of a document
getSummary(body, maxLength) ==
  IF length(body) <= maxLength THEN body
  ELSE substring(body, maxLength) \o <<Run(".", 3)>>

(***************************************************************************)
(* What a handler emits on res                                             *)
(***************************************************************************)
NoLocals == [none |-> TRUE]

Render(st, v, l) ==
  [status |-> st, kind |-> "render", view |-> v, location |-> <<>>, locals |-> l]

Redirect(loc) ==
  [status |-> 302, kind |-> "redirect", view |-> "", location |-> loc,
   locals |-> NoLocals]

Send(st) ==
  [status |-> st, kind |-> "send", view |-> "", location |-> <<>>,
   locals |-> NoLocals]

\* one invocation: the request received, the request the handler saw, the
\* handler, what it emitted on res and the store calls it made
Invocation(h, req, seen, em, cs, f) ==
  [handler |-> h, req |-> req, seen |-> seen, emissions |-> em, calls |-> cs,
   storeFailed |-> f]

(***************************************************************************)
(* controllers/postController.mjs: validation                              *)
(***************************************************************************)
Push(cond, msg) == IF cond THEN <<msg>> ELSE <<>>

\* createPost stopping at the first rule that fires
createErrors_shortCircuit(rawTitle, rawBody) ==
  IF rawTitle = EmptyStr THEN <<"Title is required.">>
  ELSE IF rawBody = EmptyStr THEN <<"Body is required.">>
  ELSE IF length(rawTitle) > MaxTitleLen
       THEN <<"Title must be 200 characters or fewer.">>
  ELSE Push(length(rawBody) > MaxBodyLen, "Body is too long.")

\* createPost with the title bound off by one
createErrors_offByOne(rawTitle, rawBody) ==
  Push(rawTitle = EmptyStr, "Title is required.")
    \o Push(rawBody = EmptyStr, "Body is required.")
    \o Push(rawTitle # EmptyStr /\ length(rawTitle) > MaxTitleLen + 1,
            "Title must be 200 characters or fewer.")
    \o Push(rawBody # EmptyStr /\ length(rawBody) > MaxBodyLen, "Body is too long.")

\* createPost, the validation rules
createErrors(rawTitle, rawBody) ==
  Push(rawTitle = EmptyStr, "Title is required.")
    \o Push(rawBody = EmptyStr, "Body is required.")
    \o Push(rawTitle # EmptyStr /\ length(rawTitle) > MaxTitleLen,
            "Title must be 200 characters or fewer.")
    \o Push(rawBody # EmptyStr /\ length(rawBody) > MaxBodyLen, "Body is too long.")

\* updatePost without the body rule
updateErrors_noBodyRule(rawTitle, rawBody) ==
  Push(rawTitle = EmptyStr, "Title is required.")
    \o Push(rawTitle # EmptyStr /\ length(rawTitle) > MaxTitleLen,
            "Title must be 200 characters or fewer.")

\* updatePost, the validation rules
updateErrors(rawTitle, rawBody) ==
  Push(rawTitle = EmptyStr, "Title is required.")
    \o Push(rawBody = EmptyStr, "Body is required.")
    \o Push(rawTitle # EmptyStr /\ length(rawTitle) > MaxTitleLen,
            "Title must be 200 characters or fewer.")


(***************************************************************************)
(* controllers/postController.mjs: what each handler emits, given what the *)
(* store answered (failed: the store call threw and the catch block ran)   *)
(***************************************************************************)
postsWithExtras(found) ==
  { [id |-> d._id, title |-> d.title, body |-> d.body, url |-> url(d._id),
     summary |-> getSummary(d.body, SummaryLen)] : d \in found }

getAllPostsEmissions(found, failed) ==
  IF failed THEN <<Send(500)>>
  ELSE <<Render(200, "index", [posts |-> postsWithExtras(found)])>>

\* getPostById without the return after the 404: the render then throws on
\* the null post and the catch block sends again
getPostByIdEmissions_noReturn(post, failed) ==
  IF failed THEN <<Send(500)>>
  ELSE IF post = Null THEN <<Send(404), Send(500)>>
  ELSE <<Render(200, "detail",
                [post |-> [id |-> post._id, title |-> post.title,
                           body |-> post.body, url |-> url(post._id)]])>>

getPostByIdEmissions(post, failed) ==
  IF failed THEN <<Send(500)>>
  ELSE IF post = Null THEN <<Send(404)>>
  ELSE <<Render(200, "detail",
                [post |-> [id |-> post._id, title |-> post.title,
                           body |-> post.body, url |-> url(post._id)]])>>

showNewPostFormEmissions == <<Render(200, "new", NoLocals)>>

\* createPost with the two fields swapped
newPost_swapped(rawTitle, rawBody) == [title |-> rawBody, body |-> rawTitle]

\* createPost: new BlogPost({ title: rawTitle, body: rawBody })
newPost(rawTitle, rawBody) == [title |-> rawTitle, body |-> rawBody]

\* updatePost handing only the title to the store
updateDoc_titleOnly(rawTitle, rawBody) == [title |-> rawTitle]

\* updatePost: the update handed to findByIdAndUpdate
updateDoc(rawTitle, rawBody) == [title |-> rawTitle, body |-> rawBody]

\* createPost when validation rejects the input
createPostRejected(errors, rawTitle, rawBody) ==
  <<Render(400, "new", [errors |-> errors, title |-> rawTitle, body |-> rawBody])>>

\* createPost after newPost.save()
createPostSaved(savedId, failed) ==
  IF failed THEN <<Send(500)>> ELSE <<Redirect(<<"posts", savedId>>)>>

\* deletePost without the check of what the store returned
deletePostEmissions_noCheck(deletedDoc, failed) ==
  IF failed THEN <<Send(500)>> ELSE <<Redirect(<<"posts">>)>>

deletePostEmissions(deletedDoc, failed) ==
  IF failed THEN <<Send(500)>>
  ELSE IF deletedDoc = Null THEN <<Send(404)>>
  ELSE <<Redirect(<<"posts">>)>>

showEditFormEmissions(post, failed) ==
  IF failed THEN <<Send(500)>>
  ELSE IF post = Null THEN <<Send(404)>>
  ELSE <<Render(200, "edit",
                [post |-> [id |-> post._id, title |-> post.title,
                           body |-> post.body]])>>

\* updatePost when validation rejects the input
updatePostRejected(errors, id, rawTitle, rawBody) ==
  <<Render(400, "edit",
           [errors |-> errors,
            post |-> [id |-> id, title |-> rawTitle, body |-> rawBody]])>>

\* updatePost after BlogPost.findByIdAndUpdate
updatePostUpdated(updated, failed) ==
  IF failed THEN <<Send(500)>>
  ELSE IF updated = Null THEN <<Send(404)>>
  ELSE <<Redirect(<<"posts", updated._id>>)>>

\* the fallback POST handler of /:id
fallbackEmissions == <<Send(405)>>

\* no route answered: the framework's own response
noRouteEmissions == <<Send(404)>>

(***************************************************************************)
(* The handlers.  req is the request as received, seen the request after   *)
(* the method-override middleware, fail whether the store call throws.     *)
(***************************************************************************)
\* history: the form of the last create or update that the store applied
Written(seen, h) == [title |-> seen.body.title, body |-> seen.body.body, by |-> h]

getAllPosts(req, seen, fail) ==
  /\ Route(seen).handler = "getAllPosts"
  /\ res' = Invocation("getAllPosts", req, seen,
                       getAllPostsEmissions(find(posts), fail), <<"find">>, fail)
  /\ UNCHANGED <<posts, nextId, lastWrite, deleted, pending>>

getPostById(req, seen, fail) ==
  LET post == findById(posts, Route(seen).id)
  IN
  /\ Route(seen).handler = "getPostById"
  /\ res' = Invocation("getPostById", req, seen,
                       getPostByIdEmissions(post, fail), <<"findById">>, fail)
  /\ UNCHANGED <<posts, nextId, lastWrite, deleted, pending>>

showNewPostForm(req, seen) ==
  /\ Route(seen).handler = "showNewPostForm"
  /\ res' = Invocation("showNewPostForm", req, seen,
                       showNewPostFormEmissions, <<>>, FALSE)
  /\ UNCHANGED <<posts, nextId, lastWrite, deleted, pending>>

createPost(req, seen, fail) ==
  LET rawTitle == sanitize(seen.body.title)
      rawBody == sanitize(seen.body.body)
      errors == createErrors(rawTitle, rawBody)
      savedId == IdOf(nextId + 1)
  IN
  /\ Route(seen).handler = "createPost"
  /\ IF Len(errors) > 0
     THEN /\ ~fail
          /\ res' = Invocation("createPost", req, seen,
                               createPostRejected(errors, rawTitle, rawBody),
                               <<>>, FALSE)
          /\ UNCHANGED <<posts, nextId, lastWrite, deleted, pending>>
     ELSE /\ nextId < MaxIds
          /\ res' = Invocation("createPost", req, seen,
                               createPostSaved(savedId, fail), <<"save">>, fail)
          /\ IF fail
             THEN UNCHANGED <<posts, nextId, lastWrite, deleted, pending>>
             ELSE /\ posts' = save(posts, savedId, newPost(rawTitle, rawBody))
                  /\ nextId' = nextId + 1
                  /\ lastWrite' = save(lastWrite, savedId, Written(seen, "createPost"))
                  /\ UNCHANGED <<deleted, pending>>

deletePost(req, seen, fail) ==
  LET id == Route(seen).id
      deletedDoc == findById(posts, id)
  IN
  /\ Route(seen).handler = "deletePost"
  /\ res' = Invocation("deletePost", req, seen,
                       deletePostEmissions(deletedDoc, fail),
                       <<"findByIdAndDelete">>, fail)
  /\ IF fail \/ deletedDoc = Null
     THEN UNCHANGED <<posts, nextId, lastWrite, deleted, pending>>
     ELSE /\ posts' = findByIdAndDelete(posts, id)
          /\ lastWrite' = findByIdAndDelete(lastWrite, id)
          /\ deleted' = deleted \cup {id}
          /\ UNCHANGED <<nextId, pending>>

showEditForm(req, seen, fail) ==
  LET post == findById(posts, Route(seen).id)
  IN
  /\ Route(seen).handler = "showEditForm"
  /\ res' = Invocation("showEditForm", req, seen,
                       showEditFormEmissions(post, fail), <<"findById">>, fail)
  /\ UNCHANGED <<posts, nextId, lastWrite, deleted, pending>>

updatePost(req, seen, fail) ==
  LET id == Route(seen).id
      rawTitle == sanitize(seen.body.title)
      rawBody == sanitize(seen.body.body)
      errors == updateErrors(rawTitle, rawBody)
      after == findByIdAndUpdate(posts, id, updateDoc(rawTitle, rawBody))
      updated == findById(after, id)
  IN
  /\ Route(seen).handler = "updatePost"
  /\ IF Len(errors) > 0
     THEN /\ ~fail
          /\ res' = Invocation("updatePost", req, seen,
                               updatePostRejected(errors, id, rawTitle, rawBody),
                               <<>>, FALSE)
          /\ UNCHANGED <<posts, nextId, lastWrite, deleted, pending>>
     ELSE /\ res' = Invocation("updatePost", req, seen,
                               updatePostUpdated(updated, fail),
                               <<"findByIdAndUpdate">>, fail)
          /\ IF fail \/ updated = Null
             THEN UNCHANGED <<posts, nextId, lastWrite, deleted, pending>>
             ELSE /\ posts' = after
                  /\ lastWrite' = [lastWrite EXCEPT ![id] = Written(seen, "updatePost")]
                  /\ UNCHANGED <<nextId, deleted, pending>>

fallback(req, seen) ==
  /\ Route(seen).handler = "fallback"
  /\ res' = Invocation("fallback", req, seen, fallbackEmissions, <<>>, FALSE)
  /\ UNCHANGED <<posts, nextId, lastWrite, deleted, pending>>

noRoute(req, seen) ==
  /\ Route(seen).handler = "none"
  /\ res' = Invocation("none", req, seen, noRouteEmissions, <<>>, FALSE)
  /\ UNCHANGED <<posts, nextId, lastWrite, deleted, pending>>

(***************************************************************************)
(* The application: an empty collection, then one request after another    *)
(***************************************************************************)
NoRequest == Request("GET", <<>>, Absent, Absent, NoForm)

Init ==
  /\ posts = <<>>
  /\ nextId = 0
  /\ res = Invocation("start", NoRequest, NoRequest, <<>>, <<>>, FALSE)
  /\ lastWrite = <<>>
  /\ deleted = {}
  /\ pending = {}

\* one request through the middleware, the router and the handler
Handle(req) ==
  \E seen \in {methodOverride(req)} :
    \/ \E fail \in BOOLEAN : getAllPosts(req, seen, fail)
    \/ \E fail \in BOOLEAN : getPostById(req, seen, fail)
    \/ showNewPostForm(req, seen)
    \/ \E fail \in BOOLEAN : createPost(req, seen, fail)
    \/ \E fail \in BOOLEAN : deletePost(req, seen, fail)
    \/ \E fail \in BOOLEAN : showEditForm(req, seen, fail)
    \/ \E fail \in BOOLEAN : updatePost(req, seen, fail)
    \/ fallback(req, seen)
    \/ noRoute(req, seen)

Next == \E req \in Requests : Handle(req)

Spec == Init /\ [][Next]_vars

NextRouting == \E req \in RoutingRequests : Handle(req)

SpecRouting == Init /\ [][NextRouting]_vars


(***************************************************************************)
(* Requests in flight.  A handler that writes runs up to its await, the    *)
(* store executes the call it is waiting on as one atomic step, and the    *)
(* handler resumes and answers; other requests run in between.  The        *)
(* handlers that only read run as above.                                   *)
(***************************************************************************)
NoDoc == [none |-> TRUE]
NoOptions == [new |-> FALSE]

\* updatePost: the options handed to findByIdAndUpdate with upsert added
updateOptions_upsert == [new |-> TRUE, upsert |-> TRUE]

\* updatePost: the options handed to findByIdAndUpdate, { new: true }
updateOptions == [new |-> TRUE]

\* createPost: the store call it awaits
createPostCalls(rawTitle, rawBody) ==
  << [op |-> "save", id |-> NoId, doc |-> newPost(rawTitle, rawBody),
      options |-> NoOptions] >>

\* updatePost writing the title and the body in two store calls
updatePostCalls_fieldByField(id, rawTitle, rawBody) ==
  << [op |-> "findByIdAndUpdate", id |-> id, doc |-> [title |-> rawTitle],
      options |-> updateOptions],
     [op |-> "findByIdAndUpdate", id |-> id, doc |-> [body |-> rawBody],
      options |-> updateOptions] >>

\* updatePost: the store call it awaits
updatePostCalls(id, rawTitle, rawBody) ==
  << [op |-> "findByIdAndUpdate", id |-> id, doc |-> updateDoc(rawTitle, rawBody),
      options |-> updateOptions] >>

\* deletePost: the store call it awaits
deletePostCalls(id) ==
  << [op |-> "findByIdAndDelete", id |-> id, doc |-> NoDoc, options |-> NoOptions] >>

Upsert(call) == "upsert" \in DOMAIN call.options /\ call.options.upsert

\* the collection after the store has executed the call; fresh is the _id
\* the store gives to an inserted document
execute(ps, call, fresh) ==
  CASE call.op = "save" -> save(ps, fresh, call.doc)
    [] call.op = "findByIdAndUpdate" ->
         IF call.id \in DOMAIN ps THEN findByIdAndUpdate(ps, call.id, call.doc)
         ELSE IF Upsert(call) THEN save(ps, call.id, call.doc)
         ELSE ps
    [] call.op = "findByIdAndDelete" -> findByIdAndDelete(ps, call.id)

\* what the call resolves to
returned(ps, call, fresh) ==
  CASE call.op = "save" -> Document(execute(ps, call, fresh), fresh)
    [] call.op = "findByIdAndUpdate" -> findById(execute(ps, call, fresh), call.id)
    [] call.op = "findByIdAndDelete" -> findById(ps, call.id)

NoResult == [state |-> "none", doc |-> Null]

\* a handler suspended at its await: the calls it has still to make, the
\* names of those made and what the last one resolved to; existed records
\* whether the post it names was stored when the request arrived
Waiting(h, req, seen, calls) ==
  [handler |-> h, req |-> req, seen |-> seen, calls |-> calls, made |-> <<>>,
   result |-> NoResult, existed |-> Route(seen).id \in DOMAIN posts]

Inserts == { e \in pending : e.handler = "createPost" }

Suspend(e) ==
  /\ Cardinality(pending) < MaxInFlight
  /\ pending' = pending \cup {e}
  /\ UNCHANGED <<posts, nextId, res, lastWrite, deleted>>

\* createPost up to await newPost.save()
createPostBegin(req, seen) ==
  LET rawTitle == sanitize(seen.body.title)
      rawBody == sanitize(seen.body.body)
      errors == createErrors(rawTitle, rawBody)
  IN
  /\ Route(seen).handler = "createPost"
  /\ IF Len(errors) > 0
     THEN /\ res' = Invocation("createPost", req, seen,
                               createPostRejected(errors, rawTitle, rawBody),
                               <<>>, FALSE)
          /\ UNCHANGED <<posts, nextId, lastWrite, deleted, pending>>
     ELSE /\ nextId + Cardinality(Inserts) < MaxIds
          /\ Suspend(Waiting("createPost", req, seen,
                             createPostCalls(rawTitle, rawBody)))

\* updatePost up to await BlogPost.findByIdAndUpdate
updatePostBegin(req, seen) ==
  LET id == Route(seen).id
      rawTitle == sanitize(seen.body.title)
      rawBody == sanitize(seen.body.body)
      errors == updateErrors(rawTitle, rawBody)
  IN
  /\ Route(seen).handler = "updatePost"
  /\ IF Len(errors) > 0
     THEN /\ res' = Invocation("updatePost", req, seen,
                               updatePostRejected(errors, id, rawTitle, rawBody),
                               <<>>, FALSE)
          /\ UNCHANGED <<posts, nextId, lastWrite, deleted, pending>>
     ELSE Suspend(Waiting("updatePost", req, seen,
                          updatePostCalls(id, rawTitle, rawBody)))

\* deletePost up to await BlogPost.findByIdAndDelete
deletePostBegin(req, seen) ==
  /\ Route(seen).handler = "deletePost"
  /\ Suspend(Waiting("deletePost", req, seen, deletePostCalls(Route(seen).id)))

\* the store executes the call a handler waits on, or fails it
StoreStep(e, fail) ==
  LET call == Head(e.calls)
      fresh == IdOf(nextId + 1)
      after == execute(posts, call, fresh)
      written == IF call.op = "save" THEN fresh ELSE call.id
  IN
  /\ e.calls # <<>>
  /\ IF fail
     THEN /\ pending' = (pending \ {e}) \cup
                          { [e EXCEPT !.calls = <<>>,
                                      !.made = Append(@, call.op),
                                      !.result = [state |-> "threw", doc |-> Null]] }
          /\ UNCHANGED <<posts, nextId, lastWrite, deleted>>
     ELSE /\ pending' = (pending \ {e}) \cup
                          { [e EXCEPT !.calls = Tail(@),
                                      !.made = Append(@, call.op),
                                      !.result = [state |-> "returned",
                                                  doc |-> returned(posts, call, fresh)]] }
          /\ posts' = after
          /\ nextId' = IF call.op = "save" THEN nextId + 1 ELSE nextId
          /\ lastWrite' =
               IF call.op = "findByIdAndDelete" THEN findByIdAndDelete(lastWrite, call.id)
               ELSE IF written \in DOMAIN after
                    THEN save(lastWrite, written, Written(e.seen, e.handler))
                    ELSE lastWrite
          /\ deleted' =
               IF call.op = "findByIdAndDelete" /\ call.id \in DOMAIN posts
               THEN deleted \cup {call.id}
               ELSE deleted
  /\ UNCHANGED res

\* the handler resumes after its last call and answers
Resume(e) ==
  LET failed == e.result.state = "threw"
      doc == e.result.doc
      emitted ==
        CASE e.handler = "createPost" ->
               createPostSaved(IF failed THEN NoId ELSE doc._id, failed)
          [] e.handler = "updatePost" -> updatePostUpdated(doc, failed)
          [] e.handler = "deletePost" -> deletePostEmissions(doc, failed)
  IN
  /\ e.calls = <<>>
  /\ res' = Invocation(e.handler, e.req, e.seen, emitted, e.made, failed)
  /\ pending' = pending \ {e}
  /\ UNCHANGED <<posts, nextId, lastWrite, deleted>>

\* the requests sent while others are in flight: the pages of the first
\* post, a create, two different valid updates of the first post, rejected
\* forms, and its delete; the store calls of the writes may fail, those of
\* the pages (whose failures are explored by Spec) return
ConcurrentForms ==
  { ValidForm,
    <<Str(Padded(A(MaxTitleLen))), Str(X(MaxBodyLen))>>,
    <<Str(<<Run(" ", 2)>>), Str(EmptyStr)>> }

ConcurrentRequests ==
  { Request("GET", p, Absent, Absent, NoForm) :
      p \in {<<>>, <<"new">>, <<IdOf(1)>>, <<IdOf(1), "edit">>} }
    \cup { Request("POST", <<"new">>, Absent, Absent, f) :
             f \in {ValidForm, <<Str(Padded(A(MaxTitleLen + 1))), Str(X(1))>>} }
    \cup { Request("POST", <<IdOf(1)>>, Absent, "PUT", f) : f \in ConcurrentForms }
    \cup { Request("POST", <<IdOf(1)>>, Absent, "DELETE", NoForm) }

NextConcurrent ==
  \/ \E req \in ConcurrentRequests : \E seen \in {methodOverride(req)} :
       \/ getAllPosts(req, seen, FALSE)
       \/ getPostById(req, seen, FALSE)
       \/ showNewPostForm(req, seen)
       \/ showEditForm(req, seen, FALSE)
       \/ createPostBegin(req, seen)
       \/ updatePostBegin(req, seen)
       \/ deletePostBegin(req, seen)
  \/ \E e \in pending : \E fail \in BOOLEAN : StoreStep(e, fail)
  \/ \E e \in pending : Resume(e)

SpecConcurrent == Init /\ [][NextConcurrent]_vars

(***************************************************************************)
(* Properties                                                              *)
(***************************************************************************)
\* the id the last request named
Target == Route(res.seen).id

\* a field that is missing, not a string, empty or whitespace only
Blank(v) ==
  typeof(v) # "string" \/ \A k \in 1..Len(v.runs) : IsSpace(v.runs[k].ch)

TrimmedLength(v) == length(trim(v.runs))

CreateInvalid(form) ==
  \/ Blank(form.title)
  \/ Blank(form.body)
  \/ TrimmedLength(form.title) > MaxTitleLen
  \/ TrimmedLength(form.body) > MaxBodyLen

C1_Step ==
  (res'.handler = "createPost" /\ CreateInvalid(res'.seen.body)) =>
    /\ posts' = posts
    /\ Len(res'.emissions) = 1
    /\ res'.emissions[1].status = 400
    /\ res'.emissions[1].kind = "render"
    /\ res'.emissions[1].view = "new"
    /\ Len(res'.emissions[1].locals.errors) > 0

\* C1: a create request with a missing, non-string, blank or too long title
\* or body is answered 400 with the "new" view and a non-empty error list,
\* and the stored posts after the request are the stored posts before it.
C1_InvalidCreateRejected == [][C1_Step]_vars

\* a too long title is rejected while the store holds a post
C1_Witness ==
  /\ res.handler = "createPost"
  /\ TrimmedLength(res.seen.body.title) > MaxTitleLen
  /\ ~Blank(res.seen.body.body)
  /\ Len(res.emissions) = 1
  /\ res.emissions[1].status = 400
  /\ DOMAIN posts # {}

ShowAfterCreate ==
  \A id \in DOMAIN lastWrite :
    ( /\ res.handler = "getPostById"
      /\ Target = id
      /\ ~res.storeFailed
      /\ lastWrite[id].by = "createPost" ) =>
        /\ Len(res.emissions) = 1
        /\ res.emissions[1].status = 200
        /\ res.emissions[1].view = "detail"
        /\ res.emissions[1].locals.post.id = id
        /\ res.emissions[1].locals.post.title = trim(lastWrite[id].title.runs)
        /\ res.emissions[1].locals.post.body = trim(lastWrite[id].body.runs)

C2_Step ==
  /\ ( /\ res'.handler = "createPost"
       /\ ~CreateInvalid(res'.seen.body)
       /\ ~res'.storeFailed ) =>
         \E id \in DOMAIN posts' \ DOMAIN posts :
           /\ DOMAIN posts' = DOMAIN posts \cup {id}
           /\ res'.emissions = <<Redirect(<<"posts", id>>)>>
  /\ ShowAfterCreate'

\* C2: a create with valid input that the store accepts redirects to
\* /posts/{id} for the id of the one post inserted, and a show of that id
\* with no update or delete of it in between renders the trimmed submitted
\* title and body.
C2_CreateThenShow == [][C2_Step]_vars

\* a post created from a padded title is shown
C2_Witness ==
  /\ res.handler = "getPostById"
  /\ Target \in DOMAIN lastWrite
  /\ lastWrite[Target].by = "createPost"
  /\ lastWrite[Target].title.runs # trim(lastWrite[Target].title.runs)
  /\ ~res.storeFailed
  /\ res.emissions[1].status = 200


UpdateInvalid(form) ==
  \/ Blank(form.title)
  \/ Blank(form.body)
  \/ TrimmedLength(form.title) > MaxTitleLen

C3_Step ==
  res'.handler = "updatePost" =>
    /\ Len(res'.emissions) = 1
    /\ IF UpdateInvalid(res'.seen.body)
       THEN /\ res'.calls = <<>>
            /\ res'.emissions[1].status = 400
            /\ res'.emissions[1].view = "edit"
            /\ posts' = posts
       ELSE /\ res'.calls = <<"findByIdAndUpdate">>
            /\ ~res'.storeFailed =>
                 IF Route(res'.seen).id \in DOMAIN posts
                 THEN res'.emissions[1] = Redirect(<<"posts", Route(res'.seen).id>>)
                 ELSE res'.emissions[1].status = 404 /\ posts' = posts

\* C3: updatePost validates first: an invalid form gets 400 and the edit
\* view with no store call, whether or not the id exists; a valid form makes
\* the one store call, and when the store answers, an id with no stored post
\* gets 404 with the posts unchanged and an existing id a redirect to
\* /posts/{id}.
C3_UpdateValidatesFirst == [][C3_Step]_vars

\* an invalid update of an id that has no post is answered 400
C3_Witness ==
  /\ res.handler = "updatePost"
  /\ Target \notin DOMAIN posts
  /\ UpdateInvalid(res.seen.body)
  /\ res.emissions[1].status = 400
  /\ res.calls = <<>>

C4_Step ==
  ( /\ res'.handler \in {"getPostById", "showEditForm", "updatePost", "deletePost"}
    /\ Route(res'.seen).id \in deleted
    /\ res'.handler = "updatePost" => ~UpdateInvalid(res'.seen.body) ) =>
      /\ Len(res'.emissions) = 1
      /\ res'.emissions[1].status = IF res'.storeFailed THEN 500 ELSE 404
      /\ posts' = posts

\* C4: once deletePost has succeeded for an id, every later show, edit-form,
\* valid update or delete request for that id is answered 404 whenever the
\* store answers (500 only when the store call itself throws), never with a
\* success, and never brings the post back.
C4_DeleteIsTerminal == [][C4_Step]_vars

\* a second delete of a deleted id, answered 404
C4_Witness ==
  /\ res.handler = "deletePost"
  /\ Target \in deleted
  /\ ~res.storeFailed
  /\ res.emissions[1].status = 404

ShowAfterUpdate ==
  \A id \in DOMAIN lastWrite :
    ( /\ res.handler = "getPostById"
      /\ Target = id
      /\ ~res.storeFailed
      /\ lastWrite[id].by = "updatePost" ) =>
        /\ Len(res.emissions) = 1
        /\ res.emissions[1].status = 200
        /\ res.emissions[1].view = "detail"
        /\ res.emissions[1].locals.post.id = id
        /\ res.emissions[1].locals.post.title = trim(lastWrite[id].title.runs)
        /\ res.emissions[1].locals.post.body = trim(lastWrite[id].body.runs)

C5_Step ==
  /\ ( /\ res'.handler = "updatePost"
       /\ Len(res'.emissions) = 1
       /\ res'.emissions[1].kind = "redirect" ) =>
         /\ DOMAIN posts' = DOMAIN posts
         /\ res'.emissions[1].location = <<"posts", Route(res'.seen).id>>
         /\ lastWrite'[Route(res'.seen).id].by = "updatePost"
         /\ \A other \in DOMAIN posts \ {Route(res'.seen).id} :
              posts'[other] = posts[other]
  /\ ShowAfterUpdate'

\* C5: after a valid update of a created post succeeds, the post keeps its
\* id and a following show of that id renders exactly the trimmed title and
\* body of the update, not a field of the earlier version.
C5_UpdateReplacesFully == [][C5_Step]_vars

\* a post is shown with a body only an update can have stored
C5_Witness ==
  /\ res.handler = "getPostById"
  /\ Target \in DOMAIN lastWrite
  /\ lastWrite[Target].by = "updatePost"
  /\ ~res.storeFailed
  /\ res.emissions[1].status = 200
  /\ length(res.emissions[1].locals.post.body) > MaxBodyLen
  /\ res.emissions[1].locals.post.title = <<Run("b", 1)>>


Rules ==
  << "Title is required.", "Body is required.",
     "Title must be 200 characters or fewer.", "Body is too long." >>

Fires(msg, form) ==
  CASE msg = Rules[1] -> Blank(form.title)
    [] msg = Rules[2] -> Blank(form.body)
    [] msg = Rules[3] -> TrimmedLength(form.title) > MaxTitleLen
    [] msg = Rules[4] -> TrimmedLength(form.body) > MaxBodyLen

\* the rules of the list that fire on the form, in the order of the list
Expected(rules, form) ==
  LET Test(msg) == Fires(msg, form) IN SelectSeq(rules, Test)

\* C6: the errors of createPost are exactly the rules of ["Title is
\* required.", "Body is required.", "Title must be 200 characters or
\* fewer.", "Body is too long."] that fire on the trimmed input, in that
\* order, all of them; updatePost reports the same list without the last
\* rule; a form on which no rule fires goes on to the store.
C6_ErrorsInFixedOrder ==
  /\ res.handler = "createPost" =>
       IF Expected(Rules, res.seen.body) = <<>>
       THEN res.calls = <<"save">>
       ELSE /\ res.calls = <<>>
            /\ res.emissions[1].locals.errors = Expected(Rules, res.seen.body)
  /\ res.handler = "updatePost" =>
       IF Expected(SubSeq(Rules, 1, 3), res.seen.body) = <<>>
       THEN res.calls = <<"findByIdAndUpdate">>
       ELSE /\ res.calls = <<>>
            /\ res.emissions[1].locals.errors
                 = Expected(SubSeq(Rules, 1, 3), res.seen.body)

\* createPost reports a missing body and a too long title together
C6_Witness ==
  /\ res.handler = "createPost"
  /\ Len(res.emissions) = 1
  /\ res.emissions[1].status = 400
  /\ res.emissions[1].locals.errors = <<Rules[2], Rules[3]>>

C7_Step ==
  ( /\ res'.req.originalMethod = "POST"
    /\ Len(res'.req.path) = 1 ) =>
      /\ res'.req.body._method = "PUT" =>
           /\ res'.handler = "updatePost"
           /\ res'.seen.body._method = Absent
      /\ res'.req.body._method = "DELETE" =>
           /\ res'.handler = "deletePost"
           /\ res'.seen.body._method = Absent
      /\ ( /\ res'.req.body._method = Absent
           /\ res'.req.query._method = Absent
           /\ res'.req.path # <<"new">> ) =>
             /\ res'.handler = "fallback"
             /\ res'.emissions = <<Send(405)>>
             /\ posts' = posts

\* C7: a POST to /posts/:id whose body has a _method field naming PUT or
\* DELETE is handled by updatePost or deletePost, which see the body without
\* the _method field; a POST to /posts/:id with no override is answered 405
\* by the fallback and changes no stored post.
C7_MethodOverrideByFormInput == [][C7_Step]_vars

\* a POST with _method=PUT in the body and _method=DELETE in the query
\* string updates the post
C7_Witness ==
  /\ res.req.originalMethod = "POST"
  /\ res.req.body._method = "PUT"
  /\ res.req.query._method = "DELETE"
  /\ res.handler = "updatePost"
  /\ res.seen.body._method = Absent
  /\ res.emissions = <<Redirect(<<"posts", Target>>)>>

PlainPost(req) ==
  /\ req.originalMethod = "POST"
  /\ req.query._method = Absent
  /\ req.body._method = Absent

\* C8: a plain POST to /posts/:id/update is handled by updatePost and a
\* plain POST to /posts/:id/delete by deletePost.
C8_PostUpdateAndDeleteRoutes ==
  (PlainPost(res.req) /\ Len(res.req.path) = 2) =>
    /\ res.req.path[2] = "update" => res.handler = "updatePost"
    /\ res.req.path[2] = "delete" => res.handler = "deletePost"

\* C9: the form view re-rendered after a validation failure is handed the
\* title and body that were submitted.
C9_ViewGetsSubmittedValues ==
  ( /\ res.handler \in {"createPost", "updatePost"}
    /\ Len(res.emissions) = 1
    /\ res.emissions[1].status = 400 ) =>
      LET handed == IF res.handler = "createPost"
                    THEN res.emissions[1].locals
                    ELSE res.emissions[1].locals.post
      IN /\ typeof(res.seen.body.title) = "string" =>
              handed.title = res.seen.body.title.runs
         /\ typeof(res.seen.body.body) = "string" =>
              handed.body = res.seen.body.body.runs

Handlers ==
  { "getAllPosts", "getPostById", "showNewPostForm", "createPost",
    "showEditForm", "updatePost", "deletePost", "fallback", "none" }

\* C10: every invocation of every handler ends in exactly one response, and
\* the response is 500 exactly when the store call failed: a store failure
\* is never reported as 404 or as a success.
C10_ExactlyOneResponse ==
  res.handler \in Handlers =>
    /\ Len(res.emissions) = 1
    /\ res.storeFailed <=> res.emissions[1].status = 500
    /\ res.emissions[1].status \in {200, 302, 400, 404, 405, 500}

\* the store fails during an update of an id that has no post: 500, not 404
C10_Witness ==
  /\ res.handler = "updatePost"
  /\ res.storeFailed
  /\ Target \notin DOMAIN posts
  /\ res.emissions = <<Send(500)>>

(***************************************************************************)
(* C11.  In every state reachable from the empty store by create, update   *)
(* and delete requests through the handlers, in any order and with their   *)
(* store calls interleaved in any way, every stored post has a title and a *)
(* body that are non-empty and neither start nor end with whitespace, and  *)
(* a title of at most 200 characters.                                      *)
(***************************************************************************)
Clean(s) ==
  /\ s # EmptyStr
  /\ ~IsSpace(Head(s).ch)
  /\ ~IsSpace(s[Len(s)].ch)

C11_StoredPostsAreClean ==
  \A id \in DOMAIN posts :
    /\ Clean(posts[id].title)
    /\ Clean(posts[id].body)
    /\ length(posts[id].title) <= MaxTitleLen

\* a title submitted with padding around 200 characters is stored with
\* exactly 200, while another request is still waiting on the store
C11_Witness ==
  /\ pending # {}
  /\ \E id \in DOMAIN posts :
       /\ length(posts[id].title) = MaxTitleLen
       /\ length(lastWrite[id].title.runs) > MaxTitleLen
       /\ lastWrite[id].by = "updatePost"

(***************************************************************************)
(* C12.  Valid updates of the same stored post that are in flight at once: *)
(* each handler makes one store call, a findByIdAndUpdate carrying both    *)
(* the title and the body; each update whose call returns is answered with *)
(* a redirect to /posts/{id}; and the stored post is the complete trimmed  *)
(* (title, body) pair of the update the store applied last, never the      *)
(* title of one update with the body of another.                           *)
(***************************************************************************)
Updates(pend) == { e \in pend : e.handler = "updatePost" }

\* the calls of an update, made or still to make, are one update of both fields
OneStoreUpdate(e) ==
  /\ Len(e.made) + Len(e.calls) = 1
  /\ \A i \in 1..Len(e.made) : e.made[i] = "findByIdAndUpdate"
  /\ \A i \in 1..Len(e.calls) :
       /\ e.calls[i].op = "findByIdAndUpdate"
       /\ DOMAIN e.calls[i].doc = {"title", "body"}

\* the stored post is the whole trimmed form of the update applied last
LastUpdateWhole(ps, lw) ==
  \A id \in DOMAIN ps :
    lw[id].by = "updatePost" =>
      ps[id] = [title |-> trim(lw[id].title.runs), body |-> trim(lw[id].body.runs)]

C12_Step ==
  /\ \A e \in Updates(pending') : OneStoreUpdate(e)
  /\ LastUpdateWhole(posts', lastWrite')
  /\ \A e \in Updates(pending) \ pending' :
       ( /\ e.calls = <<>>
         /\ e.result.state = "returned"
         /\ e.existed
         /\ Route(e.seen).id \notin deleted )
       => /\ res'.req = e.req
          /\ res'.calls = <<"findByIdAndUpdate">>
          /\ res'.emissions = <<Redirect(url(Route(e.seen).id))>>

C12_ConcurrentUpdatesLastWins == [][C12_Step]_vars

\* two different updates of one post are in flight together, the store has
\* applied both, and the post is the pair of the one it applied last
C12_Witness ==
  \E a, b \in Updates(pending) :
    /\ a # b
    /\ Route(a.seen).id = Route(b.seen).id
    /\ a.existed /\ b.existed
    /\ a.calls = <<>> /\ b.calls = <<>>
    /\ a.result.state = "returned" /\ b.result.state = "returned"
    /\ a.result.doc # Null /\ b.result.doc # Null
    /\ a.result.doc # b.result.doc
    /\ Route(b.seen).id \in DOMAIN posts
    /\ lastWrite[Route(b.seen).id] = Written(b.seen, "updatePost")
    /\ Document(posts, Route(b.seen).id) = b.result.doc

(***************************************************************************)
(* C13.  The set of stored ids changes only when the store executes the    *)
(* save of a create, which adds exactly one id that was never used before, *)
(* or the delete of a stored post, which removes exactly that id; the      *)
(* list, show, new-form and edit-form pages and every answer change        *)
(* nothing; an update never inserts: one whose store call is executed when *)
(* no post has its id (the post was deleted first, during or before the    *)
(* update) changes nothing, resolves to null and is answered 404, and a    *)
(* deleted id is never stored again; and every store step leaves all posts *)
(* but the one it names as they were.                                      *)
(***************************************************************************)
Named(e) == Route(e.seen).id

Untouched(ids) == \A i \in ids : i \in DOMAIN posts' /\ posts'[i] = posts[i]

\* what the store step of the waiting handler e may do to the collection
Effect(e) ==
  CASE e.handler = "createPost" ->
         \E fresh \in DOMAIN posts' :
           /\ fresh \notin DOMAIN posts \cup deleted
           /\ DOMAIN posts' = DOMAIN posts \cup {fresh}
           /\ Untouched(DOMAIN posts)
    [] e.handler = "updatePost" ->
         /\ DOMAIN posts' = DOMAIN posts
         /\ Untouched(DOMAIN posts \ {Named(e)})
    [] e.handler = "deletePost" ->
         /\ Named(e) \in DOMAIN posts
         /\ DOMAIN posts' = DOMAIN posts \ {Named(e)}
         /\ Untouched(DOMAIN posts \ {Named(e)})
         /\ Named(e) \in deleted'

C13_FrameStep ==
  /\ res' # res => posts' = posts
  /\ posts' # posts => \E e \in pending \ pending' : e.calls # <<>> /\ Effect(e)
  /\ deleted \subseteq deleted'
  /\ deleted' \cap DOMAIN posts' = {}

\* an update executed when its id has no post, and its answer
C13_LateUpdateStep ==
  \A e \in Updates(pending) \ pending' :
    /\ (e.calls # <<>> /\ Named(e) \notin DOMAIN posts) =>
         /\ posts' = posts
         /\ \A after \in pending' \ pending :
              after.result.state = "returned" => after.result.doc = Null
    /\ (e.calls = <<>> /\ e.result.state = "returned" /\ e.result.doc = Null) =>
         /\ res'.req = e.req
         /\ res'.emissions = <<Send(404)>>

C13_StoredIdsFrame == [][C13_FrameStep /\ C13_LateUpdateStep]_vars

\* an update that arrived while the post was stored is executed after the
\* delete of the post: it resolves to null and the post stays deleted,
\* beside a post it does not name
C13_Witness ==
  \E e \in Updates(pending) :
    /\ e.existed
    /\ e.made = <<"findByIdAndUpdate">>
    /\ e.result.state = "returned"
    /\ e.result.doc = Null
    /\ Named(e) \in deleted
    /\ Named(e) \notin DOMAIN posts
    /\ DOMAIN posts # {}

\* C13 as worded: every update in flight when its post is deleted, or
\* arriving after, is answered 404.  An update the store executes just
\* before the delete is answered with the redirect.
C13_RacingUpdateStep ==
  \A e \in Updates(pending) \ pending' :
    (e.calls = <<>> /\ e.result.state = "returned" /\ Named(e) \in deleted) =>
      res'.emissions = <<Send(404)>>

C13_AsWorded == [][C13_FrameStep /\ C13_RacingUpdateStep]_vars

====
